---- MODULE Spec2Model ----
(***************************************************************************)
(* Model of BeFake's command line front end (BeFake/__main__.py): the      *)
(* `login` command and the `feed` command with its two local helpers       *)
(* _save_post_common and _save_realmojis.                                  *)
(*                                                                         *)
(* Strings are sequences of tokens.  A token is a brace ("{" or "}") or a  *)
(* word: a maximal piece of text without braces (a field name, a value, a  *)
(* path separator).  str.format, the `in` substring test and pathlib's     *)
(* joins are modelled on that representation.                              *)
(***************************************************************************)
EXTENDS Integers, Sequences, FiniteSets, TLC

VARIABLES
    cmd,                        \* the click command being run: "login" or "feed"
    pc,                         \* position inside the command
    error,                      \* the exception that ended the command ("" = none)
    persisted,                  \* the session file on disk: "none", "old", "new"
    net,                        \* kinds of network requests performed so far
    fs,                         \* the filesystem below/around BASE_DIR: set of [path, kind]
    feed_id,                    \* CLI argument
    save_location,              \* --save-location
    realmoji_location,          \* --realmoji-location (None when absent)
    instant_opt,                \* --instant-realmoji-location as given on the command line
    instant_realmoji_location,  \* the local of that name after line 98
    yielded,                    \* number of items the feed iterator has produced
    item,                       \* the loop variable `item`
    nposts,                     \* posts of `item` already produced by `for post in item.posts`
    post,                       \* the object handed to _save_post_common (item or post)
    _save_location,             \* the local `_save_location`
    nemojis,                    \* realmojis of `post` already produced
    emoji,                      \* the loop variable `emoji`
    _realmoji_location,         \* the local `_realmoji_location`
    date_fetches,               \* evaluations of emoji.date for the current emoji
    units,                      \* items/posts handed to the loop body so far
    saved,                      \* items/posts for which _save_post_common returned
    trace                       \* calls made for the current item/post (or by login), in order

vars == << cmd, pc, error, persisted, net, fs, feed_id, save_location,
           realmoji_location, instant_opt, instant_realmoji_location, yielded,
           item, nposts, post, _save_location, nemojis, emoji,
           _realmoji_location, date_fetches, units, saved, trace >>

-----------------------------------------------------------------------------
(* Bounds of the model.                                                    *)

MaxItems == 2
MaxPosts == 1
MaxRealmojis == 1

-----------------------------------------------------------------------------
(* Strings.                                                                *)

LB == "{"
RB == "}"
SEP == "/"

\* Python's None for an option that was not given.
None == << "<None>" >>

\* Truth value of an optional string: None and "" are falsy.
Truthy(s) == s # None /\ s # << >>

\* `sub in s` for strings.
RECURSIVE ContainsFrom(_, _, _)
ContainsFrom(s, sub, i) ==
    IF i + Len(sub) - 1 > Len(s) THEN FALSE
    ELSE IF SubSeq(s, i, i + Len(sub) - 1) = sub THEN TRUE
    ELSE ContainsFrom(s, sub, i + 1)

Contains(s, sub) == ContainsFrom(s, sub, 1)

\* First index >= i of a brace in t, or Len(t) + 1.
RECURSIVE FieldEnd(_, _)
FieldEnd(t, i) ==
    IF i > Len(t) THEN i
    ELSE IF t[i] \in {LB, RB} THEN i
    ELSE FieldEnd(t, i + 1)

Raised(e) == [err |-> e, out |-> << >>]

\* str.format(**kw) from position i on, with acc the output so far.
\* "{{" and "}}" are escapes, "{name}" is looked up in kw, "{}" is an
\* auto-numbered positional field (there are no positional arguments).
RECURSIVE Fmt(_, _, _, _)
Fmt(t, kw, i, acc) ==
    IF i > Len(t) THEN [err |-> "", out |-> acc]
    ELSE IF t[i] = LB THEN
        IF i < Len(t) /\ t[i + 1] = LB THEN Fmt(t, kw, i + 2, Append(acc, LB))
        ELSE LET j == FieldEnd(t, i + 1) IN
            IF j > Len(t) THEN Raised("ValueError")
            ELSE IF t[j] = LB THEN Raised("ValueError")
            ELSE IF j = i + 1 THEN Raised("IndexError")
            ELSE IF j = i + 2 /\ t[i + 1] \in DOMAIN kw
                 THEN Fmt(t, kw, j + 1, acc \o kw[t[i + 1]])
            ELSE Raised("KeyError")
    ELSE IF t[i] = RB THEN
        IF i < Len(t) /\ t[i + 1] = RB THEN Fmt(t, kw, i + 2, Append(acc, RB))
        ELSE Raised("ValueError")
    ELSE Fmt(t, kw, i + 1, Append(acc, t[i]))

\* template.format(**kw); None has no attribute `format`.
Format(t, kw) == IF t = None THEN Raised("AttributeError") ELSE Fmt(t, kw, 1, << >>)

\* The literal '{date}' of lines 125 and 129.
DATE_PLACEHOLDER == << LB, "date", RB >>

-----------------------------------------------------------------------------
(* Paths.                                                                  *)

BASE_DIR == << SEP, "cwd" >>

\* pathlib's `a / b`: an absolute b replaces a.
PathJoin(a, b) ==
    IF Len(b) > 0 /\ b[1] = SEP THEN b
    ELSE IF b = << >> THEN a
    ELSE a \o << SEP >> \o b

RECURSIVE LastSep(_, _)
LastSep(p, i) == IF i = 0 THEN 0 ELSE IF p[i] = SEP THEN i ELSE LastSep(p, i - 1)

\* Path.parent
Parent(p) ==
    LET j == LastSep(p, Len(p)) IN
    IF j = 0 THEN p ELSE IF j = 1 THEN << SEP >> ELSE SubSeq(p, 1, j - 1)

Dir(p) == [path |-> p, kind |-> "dir"]
File(p) == [path |-> p, kind |-> "file"]

\* Path.mkdir(parents=True, exist_ok=True): p and every missing ancestor.
MkdirParents(p) ==
    { Dir(p) } \cup { Dir(SubSeq(p, 1, j - 1)) : j \in { k \in 2..Len(p) : p[k] = SEP } }

-----------------------------------------------------------------------------
(* Inputs: command line arguments and what the server returns.             *)

\* click.Choice of the feed_id argument.
FeedChoice ==
    { "friends", "friends-v1", "friends-of-friends", "discovery", "memories", "memories-v1" }

\* Keys of the dict FEEDGETTER_MAP.
FEEDGETTER_MAP == { "friends-v1", "friends-of-friends", "memories", "memories-v1" }

\* --save-location: "/mem/{date}", "{user}/{post_id}", "out", "{x}"
SaveTemplates ==
    { << SEP, "mem", SEP, LB, "date", RB >>,
      << LB, "user", RB, SEP, LB, "post_id", RB >>,
      << "out" >>,
      << LB, "x", RB >> }

R_user == << LB, "user", RB >>
R_user_date == << LB, "user", RB, SEP, LB, "date", RB >>
R_date_date == << LB, "date", RB, SEP, LB, "date", RB >>
R_esc_date == << LB, LB, LB, "date", RB, RB, RB >>
R_esc_x_date == << LB, LB, "x", RB, RB, SEP, LB, "date", RB >>
R_x == << LB, "x", RB >>
R_type == << LB, "type", RB, SEP, LB, "emoji_id", RB >>
I_id == << "instant", SEP, LB, "emoji_id", RB >>
I_date == << "instant", SEP, LB, "date", RB >>

\* << --realmoji-location, --instant-realmoji-location >>
RealmojiOptions ==
    { << None, None >>, << R_user, None >>, << R_user_date, None >>,
      << R_date_date, None >>, << R_esc_date, None >>, << R_esc_x_date, None >>,
      << R_x, None >>, << R_type, I_id >>, << R_user, << >> >>,
      << None, I_date >>, << R_user_date, I_id >>, << R_user, I_date >> }

Days == { << "2024-01-01" >>, << "2024-01-02" >> }
Ids == { << "p1" >>, << "p2" >> }
EmojiUsers == { << "bob" >>, << LB, "date", RB >>, << LB, "x", RB >> }
EmojiTypes == { << "instant" >>, << "happy" >> }

\* One shape for feed items and posts; a field a variant lacks is "".
Obj(id, day, user, bts) ==
    [ id |-> id, memory_day |-> day, username |-> user,
      notification_id |-> << "n1" >>, creation_date |-> "T1", bts |-> bts ]

NoObj == Obj(<< >>, << >>, << >>, FALSE)

\* What a feed of the given kind can yield.
Items(kind) ==
    IF kind = "memories" THEN { Obj(<< "m" >>, d, << >>, b) : d \in Days, b \in BOOLEAN }
    ELSE IF kind = "memories-v1"
         THEN { Obj(i, d, << >>, b) : i \in Ids, d \in { << "2024-01-01" >> }, b \in BOOLEAN }
    ELSE { Obj(<< "i" >>, << >>, << "alice" >>, FALSE) }

\* The posts of a friends-v1 item.
Posts == { Obj(i, << >>, << >>, b) : i \in Ids, b \in BOOLEAN }

Emoji(user, type) ==
    [ username |-> user, type |-> type, id |-> << "e1" >>, url_id |-> << "u1" >>,
      date |-> "T2" ]

NoEmoji == Emoji(<< >>, << >>)

Emojis == { Emoji(u, t) : u \in EmojiUsers, t \in EmojiTypes }

\* Arrow's date.format('YYYY-MM-DD_HH-mm-ss') of a timestamp: one word of
\* digits, "-" and "_".
ArrowFormat(d) == << d >>

-----------------------------------------------------------------------------
(* Shared pieces of the commands.                                          *)

Call(op, arg) == [op |-> op, arg |-> arg]

\* Variant of Abort: the loop body's exception is caught and the loop goes
\* on with the next item.
AbortSkipsItem(e) ==
    /\ error' = e
    /\ pc' = IF cmd = "feed" /\ pc \notin { "load", "get_feed" } THEN "loop" ELSE "aborted"

\* An exception propagates out of the command: nothing catches it.
Abort(e) == pc' = "aborted" /\ error' = e

\* Line 98: instant_realmoji_location or realmoji_location
OrDefault(instant, realmoji) == IF Truthy(instant) THEN instant ELSE realmoji

\* Variant of SelectLocation: the type of the realmoji is not looked at.
SelectLocationIgnoringType(type) == realmoji_location

\* Line 117
SelectLocation(type) ==
    IF type = << "instant" >> THEN instant_realmoji_location ELSE realmoji_location

\* Variant of AfterExists: the download is not guarded.
AfterExistsUnguarded(exists) == "bts"

\* Line 110: the position after the exists() test.
AfterExists(exists) == IF exists THEN "bts" ELSE "return"

\* Keyword arguments of save_location.format, lines 141, 146, 153-156.
SaveFields ==
    IF feed_id = "memories" THEN ("date" :> item.memory_day)
    ELSE IF feed_id = "memories-v1" THEN ("date" :> item.memory_day) @@ ("post_id" :> item.id)
    ELSE ("user" :> item.username) @@ ("date" :> ArrowFormat(post.creation_date))
         @@ ("feed_id" :> << feed_id >>) @@ ("post_id" :> post.id)
         @@ ("notification_id" :> item.notification_id)

\* Keyword arguments of the first _realmoji_location.format, lines 120-126.
RealmojiFields ==
    ("user" :> emoji.username) @@ ("type" :> emoji.type) @@ ("feed_id" :> << feed_id >>)
    @@ ("notification_id" :> item.notification_id)
    @@ ("post_date" :> ArrowFormat(post.creation_date))
    @@ ("post_user" :> item.username) @@ ("post_id" :> post.id)
    @@ ("emoji_id" :> emoji.id) @@ ("emoji_url_id" :> emoji.url_id)
    @@ ("date" :> DATE_PLACEHOLDER)

\* Keyword arguments of the second format, lines 130-132.
DateField == ("date" :> ArrowFormat(emoji.date))

cfg == << cmd, feed_id, save_location, realmoji_location, instant_opt >>
loopv == << yielded, item, nposts, post, units >>
emojiv == << nemojis, emoji, _realmoji_location, date_fetches >>

-----------------------------------------------------------------------------
(* Initial states: one command invocation with its arguments.              *)

Init ==
    /\ cmd \in { "login", "feed" }
    /\ pc = IF cmd = "login" THEN "request_otp" ELSE "load"
    /\ error = ""
    /\ persisted \in (IF cmd = "login" THEN { "none", "old" } ELSE { "old" })
    /\ net = {}
    /\ fs = { Dir(BASE_DIR) }
    /\ feed_id \in (IF cmd = "login" THEN { "memories" } ELSE FeedChoice)
    /\ save_location \in (IF cmd = "login" THEN { << "out" >> } ELSE SaveTemplates)
    /\ \E o \in (IF cmd = "login" THEN { << None, None >> }
                  ELSE IF feed_id = "friends-v1" THEN RealmojiOptions
                  ELSE { << None, None >>, << R_x, None >> }) :
           realmoji_location = o[1] /\ instant_opt = o[2]
    /\ instant_realmoji_location = instant_opt
    /\ yielded = 0
    /\ item = NoObj
    /\ nposts = 0
    /\ post = NoObj
    /\ _save_location = << >>
    /\ nemojis = 0
    /\ emoji = NoEmoji
    /\ _realmoji_location = << >>
    /\ date_fetches = 0
    /\ units = 0
    /\ saved = 0
    /\ trace = << >>

-----------------------------------------------------------------------------
(* login, lines 48-58.                                                     *)

\* bf.request_otp(phone_number)
LoginRequestOtp ==
    /\ cmd = "login" /\ pc = "request_otp"
    /\ net' = net \cup { "auth" }
    /\ \/ trace' = Append(trace, Call("request_otp", << "ok" >>)) /\ pc' = "input"
          /\ error' = error
       \/ trace' = Append(trace, Call("request_otp", << "raised" >>))
          /\ Abort("RequestOtpError")
    /\ UNCHANGED << cfg, loopv, emojiv, persisted, fs, instant_realmoji_location,
                    _save_location, saved >>

\* otp = input("Enter OTP: ")
LoginInput ==
    /\ cmd = "login" /\ pc = "input"
    /\ \/ pc' = "verify_otp" /\ error' = error
       \/ Abort("EOFError")
    /\ UNCHANGED << cfg, loopv, emojiv, persisted, net, fs, instant_realmoji_location,
                    _save_location, saved, trace >>

\* Variant of LoginVerifyOtp: a failed verification does not stop the login.
LoginVerifyOtpUnchecked ==
    /\ cmd = "login" /\ pc = "verify_otp"
    /\ net' = net \cup { "auth" }
    /\ \E r \in { "ok", "raised" } : trace' = Append(trace, Call("verify_otp", << r >>))
    /\ pc' = "save"
    /\ UNCHANGED << cfg, loopv, emojiv, persisted, fs, instant_realmoji_location,
                    _save_location, saved, error >>

\* bf.verify_otp(otp)
LoginVerifyOtp ==
    /\ cmd = "login" /\ pc = "verify_otp"
    /\ net' = net \cup { "auth" }
    /\ \/ trace' = Append(trace, Call("verify_otp", << "ok" >>)) /\ pc' = "save"
          /\ error' = error
       \/ trace' = Append(trace, Call("verify_otp", << "raised" >>))
          /\ Abort("VerifyOtpError")
    /\ UNCHANGED << cfg, loopv, emojiv, persisted, fs, instant_realmoji_location,
                    _save_location, saved >>

\* bf.save() and the two click.echo lines
LoginSave ==
    /\ cmd = "login" /\ pc = "save"
    /\ \/ trace' = Append(trace, Call("save", << "ok" >>)) /\ persisted' = "new"
          /\ pc' = "done" /\ error' = error
       \/ trace' = Append(trace, Call("save", << "raised" >>)) /\ persisted' = persisted
          /\ Abort("OSError")
    /\ UNCHANGED << cfg, loopv, emojiv, net, fs, instant_realmoji_location,
                    _save_location, saved >>

-----------------------------------------------------------------------------
(* feed, lines 80-159.                                                     *)

\* The load_bf wrapper, lines 26-37: BeFake() and bf.load().
LoadBf ==
    /\ cmd = "feed" /\ pc = "load"
    /\ \/ pc' = "get_feed" /\ error' = error
       \/ Abort("LoadError")
    /\ UNCHANGED << cfg, loopv, emojiv, persisted, net, fs, instant_realmoji_location,
                    _save_location, saved, trace >>

\* Lines 87-98: the getter is looked up in FEEDGETTER_MAP and called, then
\* instant_realmoji_location is defaulted.
GetFeed ==
    /\ cmd = "feed" /\ pc = "get_feed"
    /\ IF feed_id \notin FEEDGETTER_MAP
       THEN /\ Abort("KeyError")
            /\ UNCHANGED << net, instant_realmoji_location >>
       ELSE /\ net' = net \cup { "feed" }
            /\ \/ /\ instant_realmoji_location' = OrDefault(instant_opt, realmoji_location)
                  /\ pc' = "loop" /\ error' = error
               \/ /\ Abort("FeedFetchError")
                  /\ UNCHANGED instant_realmoji_location
    /\ UNCHANGED << cfg, loopv, emojiv, persisted, fs, _save_location, saved, trace >>

\* Line 138, `for item in feed`, with the branch selection of lines 139-149.
ForItem ==
    /\ cmd = "feed" /\ pc = "loop"
    /\ \/ /\ pc' = "done"
          /\ UNCHANGED << loopv, trace >>
       \/ /\ yielded < MaxItems
          /\ \E it \in Items(feed_id) :
                /\ item' = it
                /\ yielded' = yielded + 1
                /\ IF feed_id \in { "memories", "memories-v1" }
                   THEN post' = it /\ units' = units + 1 /\ pc' = "format_save"
                        /\ nposts' = nposts /\ trace' = << >>
                   ELSE IF feed_id = "friends-v1"
                   THEN post' = post /\ units' = units /\ pc' = "posts"
                        /\ nposts' = 0 /\ trace' = trace
                   ELSE post' = post /\ units' = units + 1 /\ pc' = "loop"
                        /\ nposts' = nposts /\ trace' = trace
    /\ UNCHANGED << cfg, emojiv, persisted, net, fs, instant_realmoji_location,
                    _save_location, saved, error >>

\* Line 150, `for post in item.posts`
ForPost ==
    /\ cmd = "feed" /\ pc = "posts"
    /\ \/ /\ pc' = "loop"
          /\ UNCHANGED << post, nposts, units, trace >>
       \/ /\ nposts < MaxPosts
          /\ \E p \in Posts : post' = p
          /\ nposts' = nposts + 1
          /\ units' = units + 1
          /\ trace' = << >>
          /\ pc' = "format_save"
    /\ UNCHANGED << cfg, emojiv, yielded, item, persisted, net, fs,
                    instant_realmoji_location, _save_location, saved, error >>

\* Lines 141, 146, 152-156: _save_location = BASE_DIR / save_location.format(...)
FormatSaveLocation ==
    /\ cmd = "feed" /\ pc = "format_save"
    /\ LET r == Format(save_location, SaveFields) IN
          IF r.err # ""
          THEN Abort(r.err) /\ UNCHANGED _save_location
          ELSE _save_location' = PathJoin(BASE_DIR, r.out) /\ pc' = "mkdir"
               /\ error' = error
    /\ UNCHANGED << cfg, loopv, emojiv, persisted, net, fs, instant_realmoji_location,
                    saved, trace >>

-----------------------------------------------------------------------------
(* _save_post_common, lines 100-112.                                       *)

\* One call of _save_post_common or _save_realmojis that touches the disk
\* or the network: it is made, and either returns or raises.
Step(here, op, path, kinds, written, next, exc) ==
    /\ cmd = "feed" /\ pc = here
    /\ trace' = Append(trace, Call(op, path))
    /\ net' = net \cup kinds
    /\ \/ fs' = fs \cup written /\ pc' = next /\ error' = error
       \/ fs' = fs /\ Abort(exc)

\* Line 105
Mkdir ==
    /\ Step("mkdir", "mkdir", _save_location, {}, MkdirParents(_save_location),
            "info", "OSError")
    /\ UNCHANGED << cfg, loopv, emojiv, persisted, instant_realmoji_location,
                    _save_location, saved >>

\* Line 107
WriteInfo ==
    /\ LET p == PathJoin(_save_location, << "info.json" >>) IN
          Step("info", "write_text", p, {}, { File(p) }, "primary", "OSError")
    /\ UNCHANGED << cfg, loopv, emojiv, persisted, instant_realmoji_location,
                    _save_location, saved >>

\* Line 108
DownloadPrimary ==
    /\ LET p == PathJoin(_save_location, << "primary" >>) IN
          Step("primary", "download", p, { "media" }, { File(p) }, "secondary",
               "MediaDownloadError")
    /\ UNCHANGED << cfg, loopv, emojiv, persisted, instant_realmoji_location,
                    _save_location, saved >>

\* Line 109
DownloadSecondary ==
    /\ LET p == PathJoin(_save_location, << "secondary" >>) IN
          Step("secondary", "download", p, { "media" }, { File(p) }, "exists",
               "MediaDownloadError")
    /\ UNCHANGED << cfg, loopv, emojiv, persisted, instant_realmoji_location,
                    _save_location, saved >>

\* Line 110: if item.bts_video.exists()
BtsExists ==
    /\ cmd = "feed" /\ pc = "exists"
    /\ trace' = Append(trace, Call("exists", << ToString(post.bts) >>))
    /\ pc' = AfterExists(post.bts)
    /\ UNCHANGED << cfg, loopv, emojiv, persisted, net, fs, instant_realmoji_location,
                    _save_location, saved, error >>

\* Line 112
DownloadBts ==
    /\ LET p == PathJoin(_save_location, << "bts" >>) IN
          Step("bts", "download", p, { "media" }, { File(p) }, "return",
               "MediaDownloadError")
    /\ UNCHANGED << cfg, loopv, emojiv, persisted, instant_realmoji_location,
                    _save_location, saved >>

\* _save_post_common returns: back to line 138 (memories) or on to line 159.
ReturnSave ==
    /\ cmd = "feed" /\ pc = "return"
    /\ saved' = saved + 1
    /\ IF feed_id = "friends-v1"
       THEN pc' = "emojis" /\ nemojis' = 0
       ELSE pc' = "loop" /\ nemojis' = nemojis
    /\ UNCHANGED << cfg, loopv, emoji, _realmoji_location, date_fetches, persisted,
                    net, fs, instant_realmoji_location, _save_location, error, trace >>

-----------------------------------------------------------------------------
(* _save_realmojis, lines 114-136.                                         *)

\* Lines 115-117: `for emoji in post.realmojis` and the choice of template.
ForEmoji ==
    /\ cmd = "feed" /\ pc = "emojis"
    /\ \/ /\ pc' = "posts"
          /\ UNCHANGED emojiv
       \/ /\ nemojis < MaxRealmojis
          /\ \E e \in Emojis :
                emoji' = e /\ _realmoji_location' = SelectLocation(e.type)
          /\ nemojis' = nemojis + 1
          /\ date_fetches' = 0
          /\ pc' = "format_realmoji"
    /\ UNCHANGED << cfg, loopv, persisted, net, fs, instant_realmoji_location,
                    _save_location, saved, error, trace >>

\* Lines 120-129: the first format, which keeps '{date}', and the test
\* whether the result contains '{date}'.
FormatRealmoji ==
    /\ cmd = "feed" /\ pc = "format_realmoji"
    /\ LET r == Format(_realmoji_location, RealmojiFields) IN
          IF r.err # ""
          THEN Abort(r.err) /\ UNCHANGED _realmoji_location
          ELSE /\ _realmoji_location' = r.out
               /\ pc' = IF Contains(r.out, DATE_PLACEHOLDER) THEN "date"
                         ELSE "realmoji_mkdir"
               /\ error' = error
    /\ UNCHANGED << cfg, loopv, nemojis, emoji, date_fetches, persisted, net, fs,
                    instant_realmoji_location, _save_location, saved, trace >>

\* Lines 130-132: emoji.date costs a request; its value is formatted and
\* substituted by a second format.
FormatDate ==
    /\ cmd = "feed" /\ pc = "date"
    /\ trace' = Append(trace, Call("date", << >>))
    /\ net' = net \cup { "date" }
    /\ date_fetches' = date_fetches + 1
    /\ \/ LET r == Format(_realmoji_location, DateField) IN
             IF r.err # ""
             THEN Abort(r.err) /\ UNCHANGED _realmoji_location
             ELSE _realmoji_location' = r.out /\ pc' = "realmoji_mkdir"
                  /\ error' = error
       \/ Abort("DateFetchError") /\ UNCHANGED _realmoji_location
    /\ UNCHANGED << cfg, loopv, nemojis, emoji, persisted, fs,
                    instant_realmoji_location, _save_location, saved >>

\* Line 133
RealmojiPath == PathJoin(BASE_DIR, _realmoji_location)

\* Line 135
RealmojiMkdir ==
    /\ Step("realmoji_mkdir", "mkdir", Parent(RealmojiPath), {},
            MkdirParents(Parent(RealmojiPath)), "realmoji_photo", "OSError")
    /\ UNCHANGED << cfg, loopv, emojiv, persisted, instant_realmoji_location,
                    _save_location, saved >>

\* Line 136
DownloadRealmoji ==
    /\ Step("realmoji_photo", "download", RealmojiPath, { "media" },
            { File(RealmojiPath) }, "emojis", "MediaDownloadError")
    /\ UNCHANGED << cfg, loopv, emojiv, persisted, instant_realmoji_location,
                    _save_location, saved >>

-----------------------------------------------------------------------------

Next ==
    \/ LoginRequestOtp \/ LoginInput \/ LoginVerifyOtp \/ LoginSave
    \/ LoadBf \/ GetFeed \/ ForItem \/ ForPost \/ FormatSaveLocation
    \/ Mkdir \/ WriteInfo \/ DownloadPrimary \/ DownloadSecondary
    \/ BtsExists \/ DownloadBts \/ ReturnSave
    \/ ForEmoji \/ FormatRealmoji \/ FormatDate \/ RealmojiMkdir \/ DownloadRealmoji

Spec == Init /\ [][Next]_vars

TypeOK ==
    /\ pc \in { "request_otp", "input", "verify_otp", "save", "load", "get_feed", "loop",
                "posts", "format_save", "mkdir", "info", "primary", "secondary",
                "exists", "bts", "return", "emojis", "format_realmoji", "date",
                "realmoji_mkdir", "realmoji_photo", "done", "aborted" }
    /\ (error # "") = (pc = "aborted")
    /\ yielded \in 0..MaxItems /\ nposts \in 0..MaxPosts /\ nemojis \in 0..MaxRealmojis

-----------------------------------------------------------------------------
(* Vocabulary of the properties.                                           *)

Range(s) == { s[i] : i \in DOMAIN s }

\* The names of the replacement fields of a template, as str.format parses
\* it: "{{" and "}}" are text, not fields.
RECURSIVE FieldNamesFrom(_, _)
FieldNamesFrom(t, i) ==
    IF i > Len(t) THEN {}
    ELSE IF t[i] = LB /\ i < Len(t) /\ t[i + 1] = LB THEN FieldNamesFrom(t, i + 2)
    ELSE IF t[i] = RB /\ i < Len(t) /\ t[i + 1] = RB THEN FieldNamesFrom(t, i + 2)
    ELSE IF t[i] = LB /\ i + 2 <= Len(t) /\ t[i + 1] \notin { LB, RB } /\ t[i + 2] = RB
         THEN { t[i + 1] } \cup FieldNamesFrom(t, i + 3)
    ELSE FieldNamesFrom(t, i + 1)

FieldNames(t) == FieldNamesFrom(t, 1)

\* The template is a format string whose fields are all among `keys`.
Resolvable(t, keys) == t # None /\ Format(t, [k \in keys |-> << >>]).err = ""

\* The text still shows a placeholder: "{", a name, "}".
HasPlaceholderSyntax(s) ==
    \E i \in 1..(Len(s) - 2) : s[i] = LB /\ s[i + 1] \notin { LB, RB } /\ s[i + 2] = RB

SaveKeys(kind) ==
    IF kind = "memories" THEN { "date" }
    ELSE IF kind = "memories-v1" THEN { "date", "post_id" }
    ELSE { "user", "date", "feed_id", "post_id", "notification_id" }

RealmojiKeys ==
    { "user", "type", "feed_id", "notification_id", "post_date", "post_user",
      "post_id", "emoji_id", "emoji_url_id", "date" }

FormatErrors == { "KeyError", "ValueError", "IndexError" }

\* The template line 117 chose for the current realmoji.
ChosenTemplate == SelectLocation(emoji.type)

InRealmoji == cmd = "feed" /\ emoji # NoEmoji /\ nemojis > 0

\* The path of the current realmoji has been resolved.
RealmojiResolved == InRealmoji /\ pc \in { "realmoji_mkdir", "realmoji_photo" }

BtsPath == PathJoin(_save_location, << "bts" >>)

\* Number of calls _save_post_common makes for the current post.
SaveCalls == IF post.bts THEN 6 ELSE 5

\* Positions of the trace at which a realmoji photo is downloaded: the
\* downloads after _save_post_common.
PhotoCalls == { i \in DOMAIN trace : i > SaveCalls /\ trace[i].op = "download" }

-----------------------------------------------------------------------------
(* Properties.                                                             *)

\* C1: for every item or post handed to _save_post_common, the bts video
\* is downloaded only after exists() was queried and returned true; when
\* exists() returns false no download to <directory>/bts is ever called.
C1_BtsOnlyAfterExists ==
    cmd = "feed" =>
        /\ \A i \in DOMAIN trace :
              (trace[i] = Call("download", BtsPath)) =>
                  /\ post.bts
                  /\ \E j \in 1..(i - 1) : trace[j] = Call("exists", << "TRUE" >>)
        /\ (pc = "bts") => Call("exists", << "TRUE" >>) \in Range(trace)

\* C1 witness: a post without bts video went through _save_post_common.
C1_Witness ==
    /\ cmd = "feed" /\ pc = "return" /\ ~post.bts
    /\ Call("exists", << "FALSE" >>) \in Range(trace)
    /\ File(PathJoin(_save_location, << "secondary" >>)) \in fs

\* C2: a realmoji whose template has no {date} field never has its date
\* fetched.
C2_NoDateFetchUnlessReferenced ==
    (InRealmoji /\ "date" \notin FieldNames(ChosenTemplate)) => date_fetches = 0

\* C3: a realmoji whose template has a {date} field has its date fetched
\* exactly once, and the resolved path is the template with every field,
\* {date} included, replaced by its value.
C3_DateFetchedOnceAndSubstituted ==
    (RealmojiResolved /\ "date" \in FieldNames(ChosenTemplate)) =>
        /\ date_fetches = 1
        /\ _realmoji_location = Format(ChosenTemplate, DateField @@ RealmojiFields).out

\* C4: a template all of whose fields are supplied resolves without error
\* and no placeholder of the template is left in the result: for the save
\* location (one format) the path shows no placeholder, for the realmoji
\* location (two formats) the path is the template with each field
\* replaced by its value.
C4_SuppliedFieldsResolve ==
    cmd = "feed" =>
        /\ (pc = "mkdir") => ~HasPlaceholderSyntax(_save_location)
        /\ (error \in FormatErrors /\ units > 0 /\ trace = << >>)
              => ~Resolvable(save_location, SaveKeys(feed_id))
        /\ RealmojiResolved =>
              _realmoji_location = Format(ChosenTemplate, DateField @@ RealmojiFields).out
        /\ (error \in FormatErrors /\ InRealmoji /\ trace # << >>)
              => ~Resolvable(ChosenTemplate, RealmojiKeys)

\* Some template given on the command line has a field that the selected
\* feed kind does not supply.
UnknownPlaceholder ==
    \/ /\ feed_id \in { "memories", "memories-v1", "friends-v1" }
       /\ FieldNames(save_location) \ SaveKeys(feed_id) # {}
    \/ /\ feed_id = "friends-v1"
       /\ \E t \in { realmoji_location, instant_opt } : FieldNames(t) \ RealmojiKeys # {}

\* C5: with an unknown placeholder in a template the command performs no
\* network request at all (no feed fetch, no media download, no date
\* fetch): it fails before.
C5_UnknownPlaceholderFailsFirst ==
    (cmd = "feed" /\ UnknownPlaceholder) => net \cap { "feed", "media", "date" } = {}

\* C6: for every feed kind the command line accepts, once the command is
\* past the getter selection the feed has been requested.
C6_EveryKindHasGetter ==
    (cmd = "feed" /\ feed_id \in FeedChoice /\ pc \notin { "load", "get_feed" }
     /\ error # "LoadError") => "feed" \in net

\* C7: a failure ends the command at once: the failing step is the last
\* step, nothing written before it is removed or changed, and no further
\* item or post is started.
C7_FailureAbortsWithoutRollback ==
    [][ (error' # "") =>
           /\ pc' = "aborted"
           /\ fs' = fs
           /\ yielded' = yielded /\ units' = units /\ saved' = saved
           /\ (error # "" => trace' = trace /\ net' = net) ]_vars

\* C7 witness: the second item failed in a download after the first item
\* had been saved.
C7_Witness ==
    /\ cmd = "feed" /\ pc = "aborted" /\ error = "MediaDownloadError"
    /\ yielded = 2 /\ saved >= 1
    /\ \E f \in fs : f.kind = "file"

LoginOrder == << "request_otp", "verify_otp", "save" >>

\* C8: login calls request_otp, verify_otp and save in that order, each
\* only after the previous one returned; the session file is replaced only
\* by a save that follows a successful verify_otp.
C8_LoginOrder ==
    cmd = "login" =>
        /\ Len(trace) <= 3
        /\ \A i \in DOMAIN trace :
              /\ trace[i].op = LoginOrder[i]
              /\ (i < Len(trace)) => trace[i].arg = << "ok" >>
        /\ (persisted = "new") =>
              /\ Call("verify_otp", << "ok" >>) \in Range(trace)
              /\ Call("save", << "ok" >>) \in Range(trace)
        /\ (pc = "done") = (persisted = "new")

\* C8 witness: verify_otp failed and the stored session is still the old one.
C8_Witness ==
    /\ cmd = "login" /\ pc = "aborted" /\ error = "VerifyOtpError"
    /\ persisted = "old"
    /\ Call("request_otp", << "ok" >>) \in Range(trace)

\* C9: when the command ends without failure every item (post, for
\* friends-v1) the feed yielded has been saved, and a saved item's
\* directory holds info.json, primary and secondary.
C9_EveryYieldedItemSaved ==
    cmd = "feed" =>
        /\ (pc = "done") => saved = units
        /\ (pc = "return") =>
              /\ Dir(_save_location) \in fs
              /\ \A n \in { "info.json", "primary", "secondary" } :
                    File(PathJoin(_save_location, << n >>)) \in fs

\* The order of the calls made for the current post and its realmojis.
RealmojiCallOrder ==
    /\ \A i \in PhotoCalls :
          /\ trace[i - 1] = Call("mkdir", Parent(trace[i].arg))
          /\ trace[5].op = "exists"
          /\ trace[1].op = "mkdir"
          /\ trace[2] = Call("write_text", PathJoin(_save_location, << "info.json" >>))
          /\ trace[3] = Call("download", PathJoin(_save_location, << "primary" >>))
          /\ trace[4] = Call("download", PathJoin(_save_location, << "secondary" >>))
    /\ (pc = "emojis") => Cardinality(PhotoCalls) = nemojis
    /\ (pc \in { "format_realmoji", "date", "realmoji_mkdir", "realmoji_photo" })
          => Cardinality(PhotoCalls) = nemojis - 1

====
